---- MODULE Spec2Model ----
(***************************************************************************)
(* Amazon book page extractors (Node.js parseAmazonBook, React             *)
(* fetchBookData, Next.js handler) as a state machine over one document.   *)
(*                                                                         *)
(* Text is a TLA+ string; a character is a string of length 1.  The two    *)
(* invisible marks cannot be written in a TLA+ string, so "^" stands for   *)
(* U+200F (right-to-left mark) and "~" for U+200E (left-to-right mark);    *)
(* the documents of the model contain no real "^" or "~".                  *)
(***************************************************************************)
EXTENDS Integers, Sequences, FiniteSets, TLC

VARIABLES
  impl,         \* which extractor runs: "node", "react" or "next"
  doc,          \* the product page the fetch returns
  response,     \* "pending", "ok" (response.ok) or "error"
  html,         \* the raw markup, once fetched
  detailsText,  \* the concatenated text of the detail containers
  bookData,     \* the record under construction: a function from its keys
  pc,           \* the next step of the extractor
  previous,     \* the record the extractor returned the time before
  again,        \* the extractor has run on this document before
  method,       \* req.method of the request the handler serves, "none" without one
  isbn,         \* the kind of value of body.isbn, of the isbn state, of identifier
  sent,         \* the responses the handler has sent for the request, in order
  loading,      \* the component's loading state
  displayed     \* the component's bookData state: <<>> for null, else <<the record>>

vars == <<impl, doc, response, html, detailsText, bookData, pc, previous, again,
          method, isbn, sent, loading, displayed>>

(***************************************************************************)
(* Characters and the JavaScript string functions the extractors use.      *)
(***************************************************************************)
RLM == "^"
LRM == "~"

Ch(s, i) == SubSeq(s, i, i)

UpperChars == "ABCDEFGHIJKLMNOPQRSTUVWXYZÇÃÕÁÉÊÍ"
LowerChars == "abcdefghijklmnopqrstuvwxyzçãõáéêí"

Digits == {"0", "1", "2", "3", "4", "5", "6", "7", "8", "9"}
UpperAZ == {Ch(UpperChars, i) : i \in 1..26}
LowerAZ == {Ch(LowerChars, i) : i \in 1..26}
\* the characters of the model's alphabet in the range U+00E0..U+00FF
LowerAccented == {Ch(LowerChars, i) : i \in 27..Len(LowerChars)}
UpperAccented == {Ch(UpperChars, i) : i \in 27..Len(UpperChars)}

\* \s of a JavaScript regular expression (the marks U+200E/U+200F are not in it)
SpaceChars == {" ", "\n", "\t"}
\* \w of a JavaScript regular expression
WordChars == UpperAZ \cup LowerAZ \cup Digits \cup {"_"}

IndexIn(c, s) ==
  IF \E i \in 1..Len(s) : Ch(s, i) = c
  THEN CHOOSE i \in 1..Len(s) : Ch(s, i) = c
  ELSE 0

\* the letters of the model's alphabet
UpperSet == UpperAZ \cup UpperAccented
LowerSet == LowerAZ \cup LowerAccented

LowerCh(c) == IF c \in UpperSet THEN Ch(LowerChars, IndexIn(c, UpperChars)) ELSE c
UpperCh(c) == IF c \in LowerSet THEN Ch(UpperChars, IndexIn(c, LowerChars)) ELSE c

\* a string mapped character by character, by halves
RECURSIVE MapChars(_, _)
MapChars(s, up) ==
  IF s = "" THEN ""
  ELSE IF Len(s) = 1 THEN (IF up THEN UpperCh(s) ELSE LowerCh(s))
  ELSE MapChars(SubSeq(s, 1, Len(s) \div 2), up)
         \o MapChars(SubSeq(s, Len(s) \div 2 + 1, Len(s)), up)

toLowerCase(s) == MapChars(s, FALSE)
toUpperCase(s) == MapChars(s, TRUE)

AllIn(s, set) == \A i \in 1..Len(s) : Ch(s, i) \in set

\* String.prototype.trim
trim(s) ==
  IF AllIn(s, SpaceChars) THEN ""
  ELSE LET a == CHOOSE i \in 1..Len(s) :
                  Ch(s, i) \notin SpaceChars /\ \A j \in 1..(i - 1) : Ch(s, j) \in SpaceChars
           b == CHOOSE i \in 1..Len(s) :
                  Ch(s, i) \notin SpaceChars /\ \A j \in (i + 1)..Len(s) : Ch(s, j) \in SpaceChars
       IN SubSeq(s, a, b)

\* String.prototype.includes
includes(s, sub) == \E i \in 1..(Len(s) - Len(sub) + 1) : SubSeq(s, i, i + Len(sub) - 1) = sub

\* replace that replaces nothing
RemoveNone(s, c) == s

\* s.replace(/c/g, '')
RECURSIVE RemoveAll(_, _)
RemoveAll(s, c) ==
  IF s = "" THEN ""
  ELSE IF Len(s) = 1 THEN (IF s = c THEN "" ELSE s)
  ELSE RemoveAll(SubSeq(s, 1, Len(s) \div 2), c)
         \o RemoveAll(SubSeq(s, Len(s) \div 2 + 1, Len(s)), c)

\* padStart without the padding: the day as captured
padStartNone(s) == s

\* String.prototype.padStart(2, '0')
padStart2(s) == IF Len(s) < 2 THEN "0" \o s ELSE s

(***************************************************************************)
(* Regular expressions.  An expression is a sequence of pieces, matched    *)
(* by backtracking as String.prototype.match does: a greedy repetition     *)
(* tries its longest run first, a lazy one its shortest, an alternation    *)
(* its words in order, and the first way that lets the rest match wins.    *)
(* Every expression of the extractors carries the /i flag, so a literal is *)
(* written lower-case and compared lower-cased, and a character class      *)
(* holds both cases.  cap is the number of the capture group, 0 for none.  *)
(***************************************************************************)
NoMatch == [found |-> FALSE]

Min(a, b) == IF a < b THEN a ELSE b

Lit(w) == [t |-> "lit", w |-> w]
\* set{min,max}, max = 0 for no upper limit; neg for [^set]
Rep(set, min, max) ==
  [t |-> "run", set |-> set, neg |-> FALSE, min |-> min, max |-> max, lazy |-> FALSE, cap |-> 0]
Plus(set) == Rep(set, 1, 0)
Star(set) == Rep(set, 0, 0)
Lazy(piece) == [piece EXCEPT !.lazy = TRUE]
Not(piece) == [piece EXCEPT !.neg = TRUE]
Cap(n, piece) == [piece EXCEPT !.cap = n]
Alt(words) == [t |-> "alt", words |-> words, cap |-> 0]
WordBoundary == [t |-> "b"]
SpaceOrEnd == [t |-> "spaceOrEnd"]

\* the literal lit (written lower-case) matches s at position i
LitAt(s, i, lit) ==
  /\ i + Len(lit) - 1 <= Len(s)
  /\ \A k \in 1..Len(lit) : LowerCh(Ch(s, i + k - 1)) = Ch(lit, k)

InClass(c, piece) == (c \in piece.set) # piece.neg

\* length of the longest run of characters of the class of piece from position i
RunLen(s, i, piece) ==
  (CHOOSE j \in i..(Len(s) + 1) :
     /\ j > Len(s) \/ ~InClass(Ch(s, j), piece)
     /\ \A k \in i..(j - 1) : InClass(Ch(s, k), piece)) - i

IsWordAt(s, i) == i >= 1 /\ i <= Len(s) /\ Ch(s, i) \in WordChars

SetCap(caps, n, v) == IF n = 0 THEN caps ELSE [caps EXCEPT ![n] = v]

RECURSIVE MatchAt(_, _, _, _), TryRun(_, _, _, _, _, _), TryLen(_, _, _, _, _),
          TryAlt(_, _, _, _, _)

\* the pieces ps match s from position p: [found, caps]
MatchAt(s, p, ps, caps) ==
  IF ps = <<>> THEN [found |-> TRUE, caps |-> caps]
  ELSE CASE Head(ps).t = "lit" ->
              IF LitAt(s, p, Head(ps).w)
              THEN MatchAt(s, p + Len(Head(ps).w), Tail(ps), caps)
              ELSE NoMatch
         [] Head(ps).t = "run" ->
              TryRun(s, p, ps, caps,
                     IF Head(ps).max = 0 THEN RunLen(s, p, Head(ps))
                     ELSE Min(RunLen(s, p, Head(ps)), Head(ps).max),
                     Head(ps).lazy)
         [] Head(ps).t = "alt" -> TryAlt(s, p, ps, caps, 1)
         [] Head(ps).t = "b" ->
              IF IsWordAt(s, p - 1) # IsWordAt(s, p)
              THEN MatchAt(s, p, Tail(ps), caps)
              ELSE NoMatch
         [] Head(ps).t = "spaceOrEnd" ->
              IF p > Len(s) THEN MatchAt(s, p, Tail(ps), caps)
              ELSE IF Ch(s, p) \in SpaceChars THEN MatchAt(s, p + 1, Tail(ps), caps)
              ELSE NoMatch

\* the repetition Head(ps) takes k characters and the rest matches after them
TryLen(s, p, ps, caps, k) ==
  MatchAt(s, p + k, Tail(ps), SetCap(caps, Head(ps).cap, SubSeq(s, p, p + k - 1)))

\* the lengths min..hi are tried in order, greedy from the longest run giving
\* characters back, lazy from the shortest; the first that lets the rest match wins
TryRun(s, p, ps, caps, hi, lazy) ==
  LET min == Head(ps).min
      len(n) == IF lazy THEN min + n - 1 ELSE hi - n + 1
      tries == {<<n, TryLen(s, p, ps, caps, len(n))>> : n \in 1..(hi - min + 1)}
      ok == {try \in tries : try[2].found}
  IN IF ok = {} THEN NoMatch
     ELSE (CHOOSE try \in ok : \A other \in ok : try[1] <= other[1])[2]

\* the alternation Head(ps) tries its words in order, from the n-th
TryAlt(s, p, ps, caps, n) ==
  IF n > Len(Head(ps).words) THEN NoMatch
  ELSE LET w == Head(ps).words[n]
           r == MatchAt(s, p + Len(w), Tail(ps),
                        SetCap(caps, Head(ps).cap, SubSeq(s, p, p + Len(w) - 1)))
       IN IF LitAt(s, p, w) /\ r.found THEN r ELSE TryAlt(s, p, ps, caps, n + 1)

NoCaps == [n \in 1..3 |-> ""]

\* the leftmost position of s where re matches, 0 without one
MatchIndex(s, re) ==
  LET indices == {i \in 1..Len(s) : MatchAt(s, i, re, NoCaps).found}
  IN IF indices = {} THEN 0 ELSE CHOOSE i \in indices : \A j \in indices : i <= j

\* String.prototype.match without /g: the match at the leftmost position that has one
Match(s, re) ==
  LET index == MatchIndex(s, re)
  IN IF index = 0 THEN NoMatch ELSE MatchAt(s, index, re, NoCaps)

\* word.charAt(0).toUpperCase() + word.slice(1) on every word of split(' '), joined by ' '
\* the characters a..b of s, each first character of a word upper-cased, by halves
RECURSIVE CapitalizeFrom(_, _, _)
CapitalizeFrom(s, a, b) ==
  IF a > b THEN ""
  ELSE IF a = b
       THEN (IF a = 1 \/ Ch(s, a - 1) = " " THEN UpperCh(Ch(s, a)) ELSE Ch(s, a))
  ELSE CapitalizeFrom(s, a, (a + b) \div 2) \o CapitalizeFrom(s, (a + b) \div 2 + 1, b)

Capitalize(s) == CapitalizeFrom(s, 1, Len(s))

\* a parse that stops after the first digit
parseIntFirstDigit(s) ==
  IF s = "" THEN 0 ELSE CHOOSE d \in 0..9 : Ch("0123456789", d + 1) = Ch(s, 1)

\* parseInt of a string of decimal digits
RECURSIVE parseInt(_)
parseInt(s) ==
  IF s = "" THEN 0
  ELSE 10 * parseInt(SubSeq(s, 1, Len(s) - 1))
         + (CHOOSE d \in 0..9 : Ch("0123456789", d + 1) = Ch(s, Len(s)))

(***************************************************************************)
(* The tables of the extractors, in their declared order.                  *)
(***************************************************************************)
months == <<
  <<"janeiro", "01">>, <<"fevereiro", "02">>, <<"março", "03">>, <<"abril", "04">>,
  <<"maio", "05">>, <<"junho", "06">>, <<"julho", "07">>, <<"agosto", "08">>,
  <<"setembro", "09">>, <<"outubro", "10">>, <<"novembro", "11">>, <<"dezembro", "12">>,
  <<"january", "01">>, <<"february", "02">>, <<"march", "03">>, <<"april", "04">>,
  <<"may", "05">>, <<"june", "06">>, <<"july", "07">>, <<"august", "08">>,
  <<"september", "09">>, <<"october", "10">>, <<"november", "11">>, <<"december", "12">> >>

\* the months table of the Next.js handler: the Portuguese names only
monthsNext == SubSeq(months, 1, 12)

\* table[key] of a JavaScript object: "undefined" when the key is missing
Lookup(table, key) ==
  IF \E n \in 1..Len(table) : table[n][1] = key
  THEN table[CHOOSE n \in 1..Len(table) : table[n][1] = key][2]
  ELSE "undefined"

languageMap == <<
  <<"português", "pt-BR">>, <<"portuguese", "pt-BR">>, <<"inglês", "en">>,
  <<"english", "en">>, <<"espanhol", "es">>, <<"spanish", "es">>,
  <<"francês", "fr">>, <<"french", "fr">>, <<"alemão", "de">>,
  <<"german", "de">>, <<"italiano", "it">>, <<"italian", "it">> >>

\* the if/else chain of the Next.js handler
languageMapNext == <<languageMap[1], languageMap[3], languageMap[5]>>

categoryMap == <<
  <<"ficção", "Fiction">>, <<"fiction", "Fiction">>, <<"romance", "Romance">>,
  <<"fantasia", "Fantasy">>, <<"fantasy", "Fantasy">>, <<"mistério", "Mystery">>,
  <<"mystery", "Mystery">>, <<"terror", "Horror">>, <<"horror", "Horror">>,
  <<"suspense", "Thriller">>, <<"thriller", "Thriller">> >>

(***************************************************************************)
(* The expressions of the extractors.                                      *)
(***************************************************************************)
AlnumChars == UpperAZ \cup LowerAZ \cup Digits
\* [:\s]
LabelSep == SpaceChars \cup {":"}
\* [a-zà-ÿ\s&\-\.] and [a-z\s&\-\.] under /i
PtNameChars ==
  LowerAZ \cup UpperAZ \cup LowerAccented \cup UpperAccented \cup SpaceChars \cup {"&", "-", "."}
EnNameChars == LowerAZ \cup UpperAZ \cup SpaceChars \cup {"&", "-", "."}

Sp == Plus(SpaceChars)

\* /ISBN-10[:\s]+([0-9X]{10})/i
isbn10Pattern == <<Lit("isbn-10"), Plus(LabelSep), Cap(1, Rep(Digits \cup {"X", "x"}, 10, 10))>>

\* /ISBN-13[:\s]+([0-9-]{13,17})/i
isbn13Pattern == <<Lit("isbn-13"), Plus(LabelSep), Cap(1, Rep(Digits \cup {"-"}, 13, 17))>>

\* /ASIN[:\s]+([A-Z0-9]{10})(?:\s|$)/i, /\bASIN[:\s]*([A-Z0-9]{10})\b/i
asinPatterns == <<
  <<Lit("asin"), Plus(LabelSep), Cap(1, Rep(AlnumChars, 10, 10)), SpaceOrEnd>>,
  <<WordBoundary, Lit("asin"), Star(LabelSep), Cap(1, Rep(AlnumChars, 10, 10)), WordBoundary>> >>

\* label\s+([class]+?)
Labelled(label, class) == <<Lit(label), Sp, Cap(1, Lazy(Plus(class)))>>

\* /editora\s+([a-zà-ÿ\s&\-\.]+?)\s+data\s+da\s+publicação/i
pubEditoraData ==
  Labelled("editora", PtNameChars) \o <<Sp, Lit("data"), Sp, Lit("da"), Sp, Lit("publicação")>>
\* /editora\s+([a-zà-ÿ\s&\-\.]+?)\s+dimensões/i
pubEditoraDim == Labelled("editora", PtNameChars) \o <<Sp, Lit("dimensões")>>
\* /editora\s+([a-zà-ÿ\s&\-\.]+?)\s+(?:isbn|asin)/i
pubEditoraId == Labelled("editora", PtNameChars) \o <<Sp, Alt(<<"isbn", "asin">>)>>
\* /publisher\s+([a-z\s&\-\.]+?)\s+publication\s+date/i
pubPublisherDate ==
  Labelled("publisher", EnNameChars) \o <<Sp, Lit("publication"), Sp, Lit("date")>>
\* /publisher\s+([a-z\s&\-\.]+?)\s+(?:isbn|asin)/i
pubPublisherId == Labelled("publisher", EnNameChars) \o <<Sp, Alt(<<"isbn", "asin">>)>>

\* the publisherPatterns of parseAmazonBook, of fetchBookData and of the handler
publisherPatterns(im) ==
  IF im = "node" THEN <<pubEditoraData, pubEditoraDim, pubEditoraId, pubPublisherDate>>
  ELSE IF im = "react"
       THEN <<pubEditoraData, pubEditoraDim, pubEditoraId, pubPublisherDate, pubPublisherId>>
       ELSE <<pubEditoraData, pubEditoraDim, pubPublisherDate>>

monthsPt == <<"janeiro", "fevereiro", "março", "abril", "maio", "junho", "julho",
              "agosto", "setembro", "outubro", "novembro", "dezembro">>
monthsEn == <<"january", "february", "march", "april", "may", "june", "july",
              "august", "september", "october", "november", "december">>

\* /(\d{1,2})\s+(janeiro|...|dezembro)\s+(\d{4})/i
dateBrShort ==
  <<Cap(1, Rep(Digits, 1, 2)), Sp, Cap(2, Alt(monthsPt)), Sp, Cap(3, Rep(Digits, 4, 4))>>
\* /(\d{1,2})\s+de\s+(janeiro|...|dezembro)\s+de\s+(\d{4})/i
dateBrLong ==
  <<Cap(1, Rep(Digits, 1, 2)), Sp, Lit("de"), Sp, Cap(2, Alt(monthsPt)), Sp, Lit("de"), Sp,
    Cap(3, Rep(Digits, 4, 4))>>
\* /(january|...|december)\s+(\d{1,2}),?\s+(\d{4})/i
dateEn ==
  <<Cap(1, Alt(monthsEn)), Sp, Cap(2, Rep(Digits, 1, 2)), Rep({","}, 0, 1), Sp,
    Cap(3, Rep(Digits, 4, 4))>>

\* the datePatterns with the English expression moved to the front
datePatternsEnFirst(im) ==
  IF im = "next" THEN <<[regex |-> dateBrShort, format |-> "br-short"]>>
  ELSE <<[regex |-> dateEn, format |-> "en"],
         [regex |-> dateBrShort, format |-> "br-short"],
         [regex |-> dateBrLong, format |-> "br-long"]>>

\* the datePatterns of parseAmazonBook and fetchBookData with their formats;
\* the handler has the first expression only
datePatterns(im) ==
  IF im = "next" THEN <<[regex |-> dateBrShort, format |-> "br-short"]>>
  ELSE <<[regex |-> dateBrShort, format |-> "br-short"],
         [regex |-> dateBrLong, format |-> "br-long"],
         [regex |-> dateEn, format |-> "en"]>>

\* /(\d+)\s*páginas/i, /Comprimento[:\s]+(\d+)\s*páginas/i, /Length[:\s]+(\d+)\s*pages/i;
\* the handler has the first expression only
pagesPatterns(im) ==
  IF im = "next" THEN << <<Cap(1, Plus(Digits)), Star(SpaceChars), Lit("páginas")>> >>
  ELSE << <<Cap(1, Plus(Digits)), Star(SpaceChars), Lit("páginas")>>,
          <<Lit("comprimento"), Plus(LabelSep), Cap(1, Plus(Digits)), Star(SpaceChars),
            Lit("páginas")>>,
          <<Lit("length"), Plus(LabelSep), Cap(1, Plus(Digits)), Star(SpaceChars),
            Lit("pages")>> >>

\* /Idioma[:\s]+([^\n;]+)/i, /Language[:\s]+([^\n;]+)/i; the handler has the first only
languagePatterns(im) ==
  IF im = "next" THEN << <<Lit("idioma"), Plus(LabelSep), Cap(1, Not(Plus({"\n", ";"})))>> >>
  ELSE << <<Lit("idioma"), Plus(LabelSep), Cap(1, Not(Plus({"\n", ";"})))>>,
          <<Lit("language"), Plus(LabelSep), Cap(1, Not(Plus({"\n", ";"})))>> >>

(***************************************************************************)
(* The document.  A page is a record of the elements the selectors of the  *)
(* extractors match, each in document order, plus the text of the rest of  *)
(* the page:                                                               *)
(*   title    texts of the elements matching the title selector            *)
(*   authors  texts of the elements matching the author selector           *)
(*   images   attributes (a function from attribute names) of the elements *)
(*            matching the image selector                                  *)
(*   desc     for each of the 3 description selectors, the matching texts  *)
(*   details  for each of the 5 detail selectors, the matching texts       *)
(*   crumbs   texts of the breadcrumb anchors                              *)
(*   other    text of the markup outside all of these                      *)
(***************************************************************************)
RECURSIVE Concat(_)
Concat(texts) == IF texts = <<>> THEN "" ELSE Head(texts) \o Concat(Tail(texts))

RECURSIVE ConcatAll(_)
ConcatAll(lists) == IF lists = <<>> THEN "" ELSE Concat(Head(lists)) \o ConcatAll(Tail(lists))

Element(text) == "<i>" \o text \o "</i>"

RECURSIVE Elements(_)
Elements(texts) == IF texts = <<>> THEN "" ELSE Element(Head(texts)) \o Elements(Tail(texts))

RECURSIVE ElementsAll(_)
ElementsAll(lists) ==
  IF lists = <<>> THEN "" ELSE Elements(Head(lists)) \o ElementsAll(Tail(lists))

\* el.attr(name) / el.getAttribute(name); a missing attribute reads as "", which the
\* extractors treat like undefined.  The attribute names of the model: hires is
\* data-old-hires, src is src, dyn is data-a-dynamic-image.  The images of a page
\* are the nodes that '#landingImage, #imgBlkFront, #ebooksImgBlkFront' selects, in
\* document order; id tells which of the three a node is.
Attr(el, name) == IF name \in DOMAIN el THEN el[name] ELSE ""

ImgTag(el) ==
  "<img" \o (IF "id" \in DOMAIN el THEN " id='" \o el["id"] \o "'" ELSE "")
         \o (IF "hires" \in DOMAIN el THEN " data-old-hires='" \o el["hires"] \o "'" ELSE "")
         \o (IF "src" \in DOMAIN el THEN " src='" \o el["src"] \o "'" ELSE "")
         \o (IF "dyn" \in DOMAIN el THEN " data-a-dynamic-image='" \o el["dyn"] \o "'" ELSE "")
         \o ">"

RECURSIVE ImgTags(_)
ImgTags(els) == IF els = <<>> THEN "" ELSE ImgTag(Head(els)) \o ImgTags(Tail(els))

\* response.text(): the raw markup of the page
Markup(d) ==
  Elements(d.title) \o Elements(d.authors) \o ImgTags(d.images) \o ElementsAll(d.desc)
    \o ElementsAll(d.details) \o Elements(d.crumbs) \o d.other

\* $(selector).text() of cheerio is the text of all matching elements;
\* querySelector(selector).textContent is the text of the first
SelText(im, texts) ==
  IF im = "react" THEN (IF texts = <<>> THEN "" ELSE Head(texts)) ELSE Concat(texts)

(***************************************************************************)
(* The record.                                                             *)
(***************************************************************************)
EmptyRecord == [k \in {} |-> ""]

Put(r, k, v) == [x \in DOMAIN r \cup {k} |-> IF x = k THEN v ELSE r[x]]

Has(r, k) == k \in DOMAIN r

Absent == [found |-> FALSE]
Value(v) == [found |-> TRUE, value |-> v]

PutIf(r, k, res) == IF res.found THEN Put(r, k, res.value) ELSE r

(***************************************************************************)
(* The fields read from the element view.                                  *)
(***************************************************************************)
\* 1. Title
Title(im, d) ==
  IF im = "react"
  THEN (IF d.title = <<>> THEN Absent ELSE Value(trim(Head(d.title))))
  ELSE LET title == trim(Concat(d.title))
       IN IF title # "" THEN Value(title) ELSE Absent

InSeq(x, seq) == \E i \in 1..Len(seq) : seq[i] = x

\* the loop over the author nodes without its test for a name already pushed
RECURSIVE AuthorsLoopAll(_, _)
AuthorsLoopAll(els, authors) ==
  IF els = <<>> THEN authors
  ELSE LET author == trim(Head(els))
       IN AuthorsLoopAll(Tail(els),
                         IF author # "" /\ ~includes(author, "(")
                         THEN Append(authors, author) ELSE authors)

\* 2. Authors: the each/forEach loop over the nodes that
\* '.author a.a-link-normal, .author .contributorNameID' selects, in document order
\* (d.contributor: the places of the .contributorNameID nodes among them);
\* authors is the array built so far
RECURSIVE AuthorsLoop(_, _)
AuthorsLoop(els, authors) ==
  IF els = <<>> THEN authors
  ELSE LET author == trim(Head(els))
       IN AuthorsLoop(Tail(els),
                      IF author # "" /\ ~includes(author, "(") /\ ~InSeq(author, authors)
                      THEN Append(authors, author) ELSE authors)

Authors(d) ==
  LET authors == AuthorsLoop(d.authors, <<>>)
  IN IF Len(authors) > 0 THEN Value(authors) ELSE Absent

\* JSON.parse of a string that starts with "{", as far as the extractors use it:
\* the keys of the object in order, or a SyntaxError.  An object is read as
\* {} or {"key":...}; its values are not looked into.
JsonParse(s) ==
  LET quotes == {i \in 3..Len(s) : Ch(s, i) = "\""}
      close == CHOOSE i \in quotes : \A j \in quotes : i <= j
  IN IF s = "{}" THEN [threw |-> FALSE, keys |-> <<>>]
     ELSE IF /\ Len(s) >= 6
             /\ Ch(s, 2) = "\""
             /\ Ch(s, Len(s)) = "}"
             /\ quotes # {}
             /\ close < Len(s)
             /\ Ch(s, close + 1) = ":"
          THEN [threw |-> FALSE, keys |-> <<SubSeq(s, 3, close - 1)>>]
          ELSE [threw |-> TRUE]

\* the attributes of the first matching element with src asked before data-old-hires
ImgSrcPlainFirst(d) ==
  IF d.images = <<>> THEN ""
  ELSE LET el == Head(d.images)
       IN IF Attr(el, "src") # "" THEN Attr(el, "src")
          ELSE IF Attr(el, "hires") # "" THEN Attr(el, "hires")
          ELSE Attr(el, "dyn")

\* imgEl.attr(a) || imgEl.attr(b) || imgEl.attr(c) on the first matching element
ImgSrc(d) ==
  IF d.images = <<>> THEN ""
  ELSE LET el == Head(d.images)
       IN IF Attr(el, "hires") # "" THEN Attr(el, "hires")
          ELSE IF Attr(el, "src") # "" THEN Attr(el, "src")
          ELSE Attr(el, "dyn")

\* the cover image without try/catch: the SyntaxError leaves the extractor
ImageUrlNoCatch(d) ==
  LET imgSrc == ImgSrc(d)
      imgObj == JsonParse(imgSrc)
  IN IF imgSrc = "" THEN [threw |-> FALSE, found |-> FALSE]
     ELSE IF Ch(imgSrc, 1) = "{"
          THEN IF imgObj.threw
               THEN [threw |-> TRUE, found |-> FALSE]
               ELSE IF Len(imgObj.keys) > 0
                    THEN [threw |-> FALSE, found |-> TRUE, value |-> imgObj.keys[1]]
                    ELSE [threw |-> FALSE, found |-> FALSE]
          ELSE [threw |-> FALSE, found |-> TRUE, value |-> imgSrc]

\* 3. Cover image: [threw, found, value]; the try/catch keeps a SyntaxError inside
ImageUrl(d) ==
  LET imgSrc == ImgSrc(d)
      imgObj == JsonParse(imgSrc)
  IN IF imgSrc = "" THEN [threw |-> FALSE, found |-> FALSE]
     ELSE IF Ch(imgSrc, 1) = "{"
          THEN IF imgObj.threw
               THEN [threw |-> FALSE, found |-> TRUE, value |-> imgSrc]
               ELSE IF Len(imgObj.keys) > 0
                    THEN [threw |-> FALSE, found |-> TRUE, value |-> imgObj.keys[1]]
                    ELSE [threw |-> FALSE, found |-> FALSE]
          ELSE [threw |-> FALSE, found |-> TRUE, value |-> imgSrc]

\* Get details text
RECURSIVE DetailsFrom(_, _, _)
DetailsFrom(im, d, n) ==
  IF n > Len(d.details) THEN ""
  ELSE LET text == SelText(im, d.details[n])
           present == IF im = "react" THEN d.details[n] # <<>> ELSE text # ""
       IN (IF present THEN " " \o text ELSE "") \o DetailsFrom(im, d, n + 1)

DetailsText(im, d) == DetailsFrom(im, d, 1)

\* a details text kept from one call of the extractor to the next
KeepDetails(old) == old

\* let detailsText = '': the text starts empty in every call, whatever it was
DeclareDetails(old) == ""

(***************************************************************************)
(* The fields resolved from an ordered list of strategies.  A candidate is *)
(* what the body of the for loop makes of one strategy: Absent when the    *)
(* strategy does not match or its candidate is rejected, the value to      *)
(* store otherwise.                                                        *)
(***************************************************************************)
\* the loop without its break: the last accepted strategy wins
RECURSIVE ResolveLast(_)
ResolveLast(candidates) ==
  IF candidates = <<>> THEN Absent
  ELSE IF ResolveLast(Tail(candidates)).found THEN ResolveLast(Tail(candidates))
  ELSE Head(candidates)

\* for (const pattern of patterns) { ...; if (accepted) { store; break; } }
RECURSIVE Resolve(_)
Resolve(candidates) ==
  IF candidates = <<>> THEN Absent
  ELSE IF Head(candidates).found THEN Head(candidates)
  ELSE Resolve(Tail(candidates))

\* the test of the description with >= in place of >
descriptionCandidateFrom50(desc) == IF desc # "" /\ Len(desc) >= 50 THEN Value(desc) ELSE Absent

\* 4. Description
descriptionCandidate(desc) == IF desc # "" /\ Len(desc) > 50 THEN Value(desc) ELSE Absent

descriptionCandidates(im, d) ==
  [n \in 1..Len(d.desc) |-> descriptionCandidate(trim(SelText(im, d.desc[n])))]

\* the validation without its all-letters rejection
asinValidShape(potentialAsin) ==
  /\ Len(potentialAsin) = 10
  /\ AllIn(potentialAsin, UpperAZ \cup Digits)

\* 7. ASIN
asinValid(potentialAsin) ==
  /\ Len(potentialAsin) = 10
  /\ AllIn(potentialAsin, UpperAZ \cup Digits)
  /\ ~AllIn(potentialAsin, UpperAZ)

asinCandidate(asinMatch) ==
  IF asinMatch.found /\ asinMatch.caps[1] # "" /\ asinValid(toUpperCase(asinMatch.caps[1]))
  THEN Value(toUpperCase(asinMatch.caps[1])) ELSE Absent

\* the candidates taken from any match of a pattern, not from its leftmost alone
asinCandidatesAny(text) ==
  [n \in 1..Len(asinPatterns) |->
     LET valid == {i \in 1..Len(text) :
                     asinCandidate(MatchAt(text, i, asinPatterns[n], NoCaps)).found}
     IN IF valid = {} THEN Absent
        ELSE asinCandidate(MatchAt(text, CHOOSE i \in valid : \A j \in valid : i <= j,
                                   asinPatterns[n], NoCaps))]

asinCandidates(text) ==
  [n \in 1..Len(asinPatterns) |-> asinCandidate(Match(text, asinPatterns[n]))]

\* 8. Publisher
publisherValid(im, publisher) ==
  /\ Len(publisher) > 1
  /\ (im # "next" => ~(publisher # "" /\ AllIn(publisher, Digits)))

publisherCandidate(im, publisherMatch) ==
  IF publisherMatch.found /\ publisherValid(im, Capitalize(trim(publisherMatch.caps[1])))
  THEN Value(Capitalize(trim(publisherMatch.caps[1]))) ELSE Absent

publisherCandidates(im, text) ==
  LET lower == toLowerCase(text)
  IN [n \in 1..Len(publisherPatterns(im)) |->
        publisherCandidate(im, Match(lower, publisherPatterns(im)[n]))]

\* the month looked up by the name as captured, without toLowerCase
monthOfAsCaptured(im, monthName) ==
  IF im = "node" /\ Lookup(months, monthName) = "undefined" THEN "01"
  ELSE Lookup(IF im = "next" THEN monthsNext ELSE months, monthName)

\* 9. Publication date
\* months[monthName] || '01' in parseAmazonBook, months[...] in the other two
monthOf(im, monthName) ==
  IF im = "node" /\ Lookup(months, toLowerCase(monthName)) = "undefined" THEN "01"
  ELSE Lookup(IF im = "next" THEN monthsNext ELSE months, toLowerCase(monthName))

\* `${year}-${month}-${day}`
dateCandidate(im, dateMatch, format) ==
  IF ~dateMatch.found THEN Absent
  ELSE IF format = "en"
       THEN Value(dateMatch.caps[3] \o "-" \o monthOf(im, dateMatch.caps[1])
                    \o "-" \o padStart2(dateMatch.caps[2]))
       ELSE Value(dateMatch.caps[3] \o "-" \o monthOf(im, dateMatch.caps[2])
                    \o "-" \o padStart2(dateMatch.caps[1]))

dateCandidates(im, markup) ==
  [n \in 1..Len(datePatterns(im)) |->
     dateCandidate(im, Match(markup, datePatterns(im)[n].regex), datePatterns(im)[n].format)]

\* 10. Pages
pagesCandidate(pagesMatch) ==
  IF pagesMatch.found THEN Value(parseInt(pagesMatch.caps[1])) ELSE Absent

pagesCandidates(im, text) ==
  [n \in 1..Len(pagesPatterns(im)) |-> pagesCandidate(Match(text, pagesPatterns(im)[n]))]

\* 11. Language: the first key of the table, in its order, that langText includes
RECURSIVE languageOf(_, _, _)
languageOf(table, langText, k) ==
  IF k > Len(table) THEN Absent
  ELSE IF includes(langText, table[k][1]) THEN Value(table[k][2])
  ELSE languageOf(table, langText, k + 1)

languageCandidate(im, langMatch) ==
  IF langMatch.found
  THEN languageOf(IF im = "next" THEN languageMapNext ELSE languageMap,
                  toLowerCase(trim(langMatch.caps[1])), 1)
  ELSE Absent

languageCandidates(im, text) ==
  [n \in 1..Len(languagePatterns(im)) |->
     languageCandidate(im, Match(text, languagePatterns(im)[n]))]

StrategyFields == {"description", "asin", "publisher", "publishedDate", "pageCount", "language"}

\* the candidates of the strategies of a field, in their declared order
Candidates(field, im, d, markup, text) ==
  CASE field = "description" -> descriptionCandidates(im, d)
    [] field = "asin" -> asinCandidates(text)
    [] field = "publisher" -> publisherCandidates(im, text)
    [] field = "publishedDate" -> dateCandidates(im, markup)
    [] field = "pageCount" -> pagesCandidates(im, text)
    [] field = "language" -> languageCandidates(im, text)

(***************************************************************************)
(* ISBN and categories.                                                    *)
(***************************************************************************)
\* 5. ISBN-10: sets isbn10 and isbn
Isbn10(r, text) ==
  IF Match(text, isbn10Pattern).found
  THEN Put(Put(r, "isbn10", Match(text, isbn10Pattern).caps[1]),
           "isbn", Match(text, isbn10Pattern).caps[1])
  ELSE r

\* the store without its guard: isbn is overwritten by isbn13
Isbn13StoreAlways(r, isbn13) == Put(Put(r, "isbn13", isbn13), "isbn", isbn13)

\* bookData.isbn13 = isbn13; if (!bookData.isbn) bookData.isbn = isbn13
Isbn13Store(r, isbn13) ==
  IF ~Has(r, "isbn") \/ r["isbn"] = ""
  THEN Put(Put(r, "isbn13", isbn13), "isbn", isbn13)
  ELSE Put(r, "isbn13", isbn13)

\* 6. ISBN-13: sets isbn13, and isbn when it is missing or empty
Isbn13(r, text) ==
  IF Match(text, isbn13Pattern).found
  THEN Isbn13Store(r, RemoveAll(Match(text, isbn13Pattern).caps[1], "-"))
  ELSE r

\* 12. Categories
categoryAccepted(im, text) ==
  /\ text # ""
  /\ Len(text) > 3
  /\ Len(text) < 50
  /\ (im # "next" =>
        /\ ~includes(text, "Livros")
        /\ ~includes(toLowerCase(text), "home")
        /\ ~includes(toLowerCase(text), "kindle")
        /\ ~includes(toLowerCase(text), "store"))

\* the categoryMap of parseAmazonBook and fetchBookData; the two ifs of the handler
categoryTable(im) == IF im = "next" THEN <<categoryMap[1], categoryMap[3]>> ELSE categoryMap

\* the loop over the table without its test for a value already pushed
RECURSIVE CategoryKeysAll(_, _, _, _)
CategoryKeysAll(table, normalized, k, categories) ==
  IF k > Len(table) THEN categories
  ELSE CategoryKeysAll(table, normalized, k + 1,
                       IF includes(normalized, table[k][1])
                       THEN Append(categories, table[k][2]) ELSE categories)

RECURSIVE CategoryKeys(_, _, _, _)
CategoryKeys(table, normalized, k, categories) ==
  IF k > Len(table) THEN categories
  ELSE CategoryKeys(table, normalized, k + 1,
                    IF includes(normalized, table[k][1]) /\ ~InSeq(table[k][2], categories)
                    THEN Append(categories, table[k][2]) ELSE categories)

RECURSIVE CategoriesLoop(_, _, _)
CategoriesLoop(im, els, categories) ==
  IF els = <<>> THEN categories
  ELSE LET text == trim(Head(els))
       IN CategoriesLoop(im, Tail(els),
                         IF categoryAccepted(im, text)
                         THEN CategoryKeys(categoryTable(im), toLowerCase(text), 1, categories)
                         ELSE categories)

Categories(im, d) ==
  LET categories == CategoriesLoop(im, d.crumbs, <<>>)
  IN IF Len(categories) > 0 THEN Value(categories) ELSE Absent

(***************************************************************************)
(* The extraction as one function: the steps of the extractor in order.    *)
(***************************************************************************)
Steps == <<"title", "authors", "image", "description", "details", "isbn10", "isbn13", "asin",
           "publisher", "date", "pages", "language", "categories", "return">>

\* the record after the step named step, from the record r before it
AfterStep(step, im, d, markup, text, r) ==
  CASE step = "title" -> PutIf(r, "title", Title(im, d))
    [] step = "authors" -> PutIf(r, "authors", Authors(d))
    [] step = "image" -> PutIf(r, "imageUrl", ImageUrl(d))
    [] step = "description" -> PutIf(r, "description", Resolve(descriptionCandidates(im, d)))
    [] step = "isbn10" -> Isbn10(r, text)
    [] step = "isbn13" -> Isbn13(r, text)
    [] step = "asin" -> PutIf(r, "asin", Resolve(asinCandidates(text)))
    [] step = "publisher" -> PutIf(r, "publisher", Resolve(publisherCandidates(im, text)))
    [] step = "date" -> PutIf(r, "publishedDate", Resolve(dateCandidates(im, markup)))
    [] step = "pages" -> PutIf(r, "pageCount", Resolve(pagesCandidates(im, text)))
    [] step = "language" -> PutIf(r, "language", Resolve(languageCandidates(im, text)))
    [] step = "categories" -> PutIf(r, "categories", Categories(im, d))
    [] OTHER -> r

RECURSIVE RunSteps(_, _, _, _)
RunSteps(im, d, n, r) ==
  IF n > Len(Steps) THEN r
  ELSE RunSteps(im, d, n + 1, AfterStep(Steps[n], im, d, Markup(d), DetailsText(im, d), r))

\* the record the extractor im returns for the page d
Extracted(im, d) == RunSteps(im, d, 1, EmptyRecord)

StepAfter(step) ==
  IF step = "return" THEN "done"
  ELSE Steps[(CHOOSE n \in 1..Len(Steps) : Steps[n] = step) + 1]

(***************************************************************************)
(* The pages of the model.  A text is up to MaxFrags fragments of one pool *)
(* joined by spaces; the fragments are the lines of a product page that    *)
(* the patterns are written for, and their near misses.                    *)
(***************************************************************************)
MaxFrags == 2

Impls == {"node", "react", "next"}

RECURSIVE Join(_)
Join(frags) ==
  IF frags = <<>> THEN ""
  ELSE IF Len(frags) = 1 THEN Head(frags)
  ELSE Head(frags) \o " " \o Join(Tail(frags))

JoinedTexts(pool) == {Join(f) : f \in UNION {[1..k -> pool] : k \in 0..MaxFrags}}

IsbnPool == {"ISBN-10: 8556512666", "ISBN-10 : 855651266X", "ISBN-13: 978-85-5651-266-6",
             "ISBN-13: 9788556512666", "isbn-13: -------------", "ISBN-10: 85X651266x"}

AsinPool == {"ASIN: B07XNZK4L5", "ASIN: b07xnzk4l5", "ASIN: HARDCOVERX", "ASIN:B000000001,",
             "xASIN: ABCDEFGHIJ"}

PublisherPool == {"Editora Suma Data da publicação", "editora x data da publicação",
                  "Editora Intrínseca Dimensões", "Editora Rocco ISBN-10: 8532530788",
                  "Publisher Penguin Publication date", "Publisher Tor ASIN"}

PagesPool == {"320 páginas", "Comprimento: 12 páginas", "Length: 200 pages", "páginas: 7"}

LanguagePool == {"Idioma: Português", "Idioma: Klingon;", "Language: English", "Idioma:\n;",
                 "idioma : inglês e português"}

\* lines as the retailer writes them, with the marks around the colon
MarkedPool == {"ISBN-10^ : ~8556512666", "editora^ : ^suma data da publicação",
               "ASIN^ : ~B07XNZK4L5", "Idioma^ : ~Português"}

DetailPools == {IsbnPool, AsinPool, PublisherPool, PagesPool, LanguagePool, MarkedPool}

DatePool == {"5 de agosto de 2025", "August 5, 2025", "5 agosto 2025", "05/08/2025",
             "15 MARÇO 1999"}

Short50 == "Um livro curto sobre areia, especiarias e vermes!!"
LongA == "Uma saga monumental de política, religião e ecologia no deserto."
LongB == "A epopeia de Paul Atreides em Arrakis, o deserto..."
LongC == "Edição comemorativa com nova tradução, mapas e posfácio inédito."

EmptyPage ==
  [title |-> <<>>, authors |-> <<>>, images |-> <<>>, desc |-> << <<>>, <<>>, <<>> >>,
   details |-> << <<>>, <<>>, <<>>, <<>>, <<>> >>, crumbs |-> <<>>, other |-> "",
   contributor |-> {}]

FullPage ==
  [title |-> <<" Duna ">>,
   authors |-> <<"Frank Herbert", "(Autor)", "Maria Silva", "Frank Herbert">>,
   images |-> <<[id |-> "landingImage", src |-> "https://m.media/duna.jpg"]>>,
   desc |-> << <<LongA>>, <<>>, <<LongC>> >>,
   details |-> << <<"Editora : Aleph Idioma : Português 680 páginas ISBN-10 : 857657313X">>,
                  <<>>, <<>>, <<>>, <<"ASIN : B00C94U4JQ\nData da publicação : 5 agosto 2017">> >>,
   crumbs |-> <<"Livros", "Ficção", "Romance e Ficção">>,
   other |-> "",
   contributor |-> {}]

DetailPages == {[EmptyPage EXCEPT !.details[1] = <<t>>] :
                  t \in UNION {JoinedTexts(pool) : pool \in DetailPools}}

DatePages == {[EmptyPage EXCEPT !.other = t] : t \in JoinedTexts(DatePool)}

DescPages == {[EmptyPage EXCEPT !.desc = <<a, b, c>>] :
                a \in {<<>>, <<Short50>>, <<"  " \o Short50 \o "\n">>, <<LongA>>},
                b \in {<<>>, <<LongB>>},
                c \in {<<>>, <<Short50>>, <<LongC>>}}

TitlePages == {[EmptyPage EXCEPT !.title = x] : x \in {<<" ">>, <<"Duna">>, <<" Duna", " (capa dura) ">>}}

ImagePages == {[EmptyPage EXCEPT !.images = <<x>>] :
                 x \in {[id |-> "landingImage", src |-> "a.jpg"],
                        [id |-> "landingImage", src |-> "a.jpg", hires |-> "b.jpg"],
                        [id |-> "landingImage", dyn |-> "{\"c.jpg\":[1,2]}"],
                        [id |-> "landingImage", dyn |-> "{}"],
                        [id |-> "landingImage", dyn |-> "{c.jpg"],
                        [id |-> "landingImage", alt |-> "capa"],
                        [id |-> "landingImage", hires |-> "", src |-> "a.jpg"],
                        [id |-> "landingImage", hires |-> "", src |-> "",
                         dyn |-> "{\"c.jpg\":[1,2]}"],
                        [id |-> "landingImage", hires |-> "{}", src |-> "a.jpg"],
                        [id |-> "landingImage", hires |-> "b.jpg", src |-> "a.jpg",
                         dyn |-> "{\"c.jpg\":[1,2]}"]}}

\* the ids of '#landingImage, #imgBlkFront, #ebooksImgBlkFront' in declared order
ImageIds == <<"landingImage", "imgBlkFront", "ebooksImgBlkFront">>

\* pages with two cover image nodes of any ids in any document order, and pages
\* with two author nodes of which any may be a .contributorNameID node instead of
\* an a.a-link-normal node
SelectorPages ==
  {[EmptyPage EXCEPT !.images = <<[id |-> ImageIds[a], src |-> "a.jpg"],
                                  [id |-> ImageIds[b], src |-> "b.jpg"]>>] :
     a \in 1..3, b \in 1..3}
  \cup {[EmptyPage EXCEPT !.authors = <<"Frank Herbert", "Maria Silva">>, !.contributor = c] :
          c \in SUBSET {1, 2}}

\* texts of breadcrumb anchors: the root node, genre nodes in both languages, a
\* root node in lower case, a node of the store navigation
CrumbPool == {"Livros", "Ficção", "Romance e Ficção", "livros de ficção", "Fantasy Fiction",
              "Kindle Store Terror"}

CrumbPages == {[EmptyPage EXCEPT !.crumbs = c] :
                 c \in UNION {[1..k -> CrumbPool] : k \in 0..MaxFrags}}

\* texts of author nodes: names, a name with white space around it, a role, a blank
AuthorPool == {"Frank Herbert", " Frank Herbert ", "(Autor)", "Maria Silva", " "}

AuthorPages == {[EmptyPage EXCEPT !.authors = a] :
                  a \in UNION {[1..k -> AuthorPool] : k \in 0..MaxFrags}}

\* one text for each of the five detail containers, in the order of the selectors
ContainerTexts == <<"ISBN-10: 8556512666", "ASIN: B07XNZK4L5", "320 páginas",
                    "Idioma: Português",
                    "Editora Companhia\ndas Letras Data da publicação">>

\* pages with any of the five containers present, each with its text, and at most
\* one more container present without text
ContainerPages ==
  {[EmptyPage EXCEPT !.details = [n \in 1..5 |-> IF n \in filled THEN <<ContainerTexts[n]>>
                                                 ELSE IF n = empty THEN <<"">> ELSE <<>>]] :
     filled \in SUBSET (1..5), empty \in 0..5}

Documents ==
  DetailPages \cup DatePages \cup DescPages \cup TitlePages \cup ImagePages \cup CrumbPages
    \cup AuthorPages \cup SelectorPages \cup ContainerPages
    \cup {FullPage}

(***************************************************************************)
(* The extractor as a state machine: fetch, then one step per field.       *)
(***************************************************************************)
\* req.method: the handler tells POST from every other method
Methods == {"POST", "GET"}

\* body.isbn of a request: undefined, '', a non-empty string, a non-zero number
IsbnKinds == {"missing", "empty", "string", "number"}

\* !isbn
Falsy(kind) == kind \in {"missing", "empty"}

\* a button that a call in flight does not disable
DisabledWhenEmpty(value, busy) == Falsy(value)

\* disabled={!isbn || loading}
Disabled(value, busy) == Falsy(value) \/ busy

\* the component starts with isbn '', loading false and bookData null and waits for
\* the button; the handler starts with a request; parseAmazonBook has been called
\* with a string and waits for its fetch
Init ==
  /\ impl \in Impls
  /\ doc = EmptyPage
  /\ response = IF impl = "node" THEN "pending" ELSE "none"
  /\ html = ""
  /\ detailsText = ""
  /\ bookData = EmptyRecord
  /\ pc = IF impl = "node" THEN "fetch" ELSE IF impl = "next" THEN "request" ELSE "idle"
  /\ previous = EmptyRecord
  /\ again = FALSE
  /\ method \in IF impl = "next" THEN Methods ELSE {"none"}
  /\ isbn \in IF impl = "next" THEN IsbnKinds
                ELSE IF impl = "react" THEN {"empty"} ELSE {"string"}
  /\ sent = <<>>
  /\ loading = FALSE
  /\ displayed = <<>>

\* a catch that takes the record on display away
CaughtAndCleared(shown) == <<>>

\* the component's bookData state after its catch (error): console.error and alert
Caught(shown) == shown

\* the call ends without a record: the handler's catch sends 500 with the message,
\* the component's catch runs and its finally clears loading
Failed(message) ==
  /\ displayed' = Caught(displayed)
  /\ pc' = "threw"
  /\ sent' = IF impl = "next" THEN Append(sent, [status |-> 500, error |-> message])
            ELSE sent
  /\ loading' = FALSE

\* the handler up to its first await: the method check, the body check, isbn.trim()
\* inside the try, then the fetch
Request ==
  /\ pc = "request"
  /\ IF method # "POST"
     THEN /\ sent' = Append(sent, [status |-> 405, error |-> "Method not allowed"])
          /\ pc' = "sent"
          /\ UNCHANGED <<response, loading, displayed>>
     ELSE IF Falsy(isbn)
     THEN /\ sent' = Append(sent, [status |-> 400, error |-> "ISBN or ASIN is required"])
          /\ pc' = "sent"
          /\ UNCHANGED <<response, loading, displayed>>
     ELSE IF isbn # "string"
     THEN /\ Failed("isbn.trim is not a function")
          /\ UNCHANGED response
     ELSE /\ response' = "pending"
          /\ pc' = "fetch"
          /\ UNCHANGED <<sent, loading, displayed>>
  /\ UNCHANGED <<impl, doc, html, detailsText, bookData, previous, again, method, isbn>>

\* onChange of the input: setIsbn(e.target.value).  The value is read only when the
\* button is pressed and for its disabled attribute, which loading decides during a
\* call, so a change during a call is the same as one right after it.
Type ==
  /\ impl = "react"
  /\ ~loading
  /\ isbn' \in {"empty", "string"} \ {isbn}
  /\ UNCHANGED <<impl, doc, response, html, detailsText, bookData, pc, previous, again,
                 method, sent, loading, displayed>>

\* onClick of the button, disabled={!isbn || loading}: fetchBookData(isbn) up to its
\* first await, setLoading(true) and the fetch
Click ==
  /\ impl = "react"
  /\ ~Disabled(isbn, loading)
  /\ loading' = TRUE
  /\ response' = "pending"
  /\ previous' = IF pc = "done" THEN bookData ELSE previous
  /\ again' = (again \/ pc = "done")
  /\ pc' = "fetch"
  /\ UNCHANGED <<impl, doc, html, detailsText, bookData, method, isbn, sent, displayed>>

\* fetch resolves with response.ok and some page of the retailer, the same page as
\* the time before if there was one: html = await response.text(); const bookData = {}
FetchOk ==
  /\ pc = "fetch"
  /\ response' = "ok"
  /\ \E d \in IF again THEN {doc} ELSE Documents :
       /\ doc' = d
       /\ html' = Markup(d)
  /\ bookData' = EmptyRecord
  /\ pc' = "title"
  /\ UNCHANGED <<impl, detailsText, previous, again, method, isbn, sent, loading, displayed>>

\* fetch rejects, or !response.ok: throw new Error(`HTTP ${response.status}`)
FetchFail ==
  /\ pc = "fetch"
  /\ response' = "error"
  /\ Failed("HTTP error")
  /\ UNCHANGED <<impl, doc, html, detailsText, bookData, previous, again, method, isbn>>

\* a step that reads the page and writes the record
FieldStep(step) ==
  /\ pc = step
  /\ bookData' = AfterStep(step, impl, doc, html, detailsText, bookData)
  /\ pc' = StepAfter(step)
  /\ UNCHANGED <<impl, doc, response, html, detailsText, previous, again,
                 method, isbn, sent, loading, displayed>>

StepTitle == FieldStep("title")
StepAuthors == FieldStep("authors")

\* the only step with code that can throw: JSON.parse, inside try/catch
StepImage ==
  /\ pc = "image"
  /\ bookData' = AfterStep("image", impl, doc, html, detailsText, bookData)
  /\ IF ImageUrl(doc).threw
     THEN Failed("Unexpected token")
     ELSE pc' = StepAfter("image") /\ UNCHANGED <<sent, loading, displayed>>
  /\ UNCHANGED <<impl, doc, response, html, detailsText, previous, again, method, isbn>>

StepDescription == FieldStep("description")

StepDetails ==
  /\ pc = "details"
  /\ detailsText' = DeclareDetails(detailsText) \o DetailsText(impl, doc)
  /\ pc' = StepAfter("details")
  /\ UNCHANGED <<impl, doc, response, html, bookData, previous, again,
                 method, isbn, sent, loading, displayed>>

StepIsbn10 == FieldStep("isbn10")
StepIsbn13 == FieldStep("isbn13")
StepAsin == FieldStep("asin")
StepPublisher == FieldStep("publisher")
StepDate == FieldStep("date")
StepPages == FieldStep("pages")
StepLanguage == FieldStep("language")
StepCategories == FieldStep("categories")

\* return bookData;  setBookData(data) and then finally setLoading(false);
\* return res.status(200).json(bookData)
Return ==
  /\ pc = "return"
  /\ pc' = "done"
  /\ sent' = IF impl = "next" THEN Append(sent, [status |-> 200, body |-> bookData])
            ELSE sent
  /\ displayed' = IF impl = "react" THEN <<bookData>> ELSE displayed
  /\ loading' = FALSE
  /\ UNCHANGED <<impl, doc, response, html, detailsText, bookData, previous, again,
                 method, isbn>>

\* parseAmazonBook is called once more, or the handler serves the same request once
\* more, and the fetch resolves with the same page:
\* html = await response.text(); const bookData = {}
Again ==
  /\ impl # "react"
  /\ pc = "done"
  /\ previous' = bookData
  /\ again' = TRUE
  /\ bookData' = EmptyRecord
  /\ sent' = <<>>
  /\ pc' = "title"
  /\ UNCHANGED <<impl, doc, response, html, detailsText, method, isbn, loading, displayed>>

Next ==
  \/ Request
  \/ Type
  \/ Click
  \/ FetchOk
  \/ FetchFail
  \/ StepTitle
  \/ StepAuthors
  \/ StepImage
  \/ StepDescription
  \/ StepDetails
  \/ StepIsbn10
  \/ StepIsbn13
  \/ StepAsin
  \/ StepPublisher
  \/ StepDate
  \/ StepPages
  \/ StepLanguage
  \/ StepCategories
  \/ Return
  \/ Again

Spec == Init /\ [][Next]_vars

\* the code that runs once the fetch has resolved waits for nothing, so it goes on
\* from each step to the next and to its end; whether and when a fetch settles is
\* the network's matter
Proceed ==
  /\ pc \in {Steps[n] : n \in 1..Len(Steps)}
  /\ pc' \in {StepAfter(pc), "threw"}

SpecLive == Spec /\ WF_pc(Proceed)

(***************************************************************************)
(* The cover image step alone, for the PHP parseAmazonBook next to the     *)
(* JavaScript extractors: the step reads nothing but the page and writes   *)
(* nothing but imageUrl.                                                   *)
(***************************************************************************)
\* $imgNodes->item(0) of the union query; getAttribute gives "" for a missing
\* attribute and ?: skips it; json_decode gives null for text that is no JSON, and
\* neither null nor an empty array passes ($imgObj && !empty($imgObj))
ImageUrlPhp(d) ==
  LET imgSrc == ImgSrc(d)
      imgObj == JsonParse(imgSrc)
  IN IF imgSrc = "" THEN [threw |-> FALSE, found |-> FALSE]
     ELSE IF Ch(imgSrc, 1) = "{"
          THEN IF ~imgObj.threw /\ Len(imgObj.keys) > 0
               THEN [threw |-> FALSE, found |-> TRUE, value |-> imgObj.keys[1]]
               ELSE [threw |-> FALSE, found |-> FALSE]
          ELSE [threw |-> FALSE, found |-> TRUE, value |-> imgSrc]

InitImage ==
  /\ impl \in Impls \cup {"php"}
  /\ doc \in ImagePages \cup SelectorPages
  /\ response = "ok"
  /\ html = Markup(doc)
  /\ detailsText = ""
  /\ bookData = EmptyRecord
  /\ pc = "image"
  /\ previous = EmptyRecord
  /\ again = FALSE
  /\ method = "none"
  /\ isbn = "string"
  /\ sent = <<>>
  /\ loading = FALSE
  /\ displayed = <<>>

ImageOnly ==
  /\ pc = "image"
  /\ LET imageUrl == IF impl = "php" THEN ImageUrlPhp(doc) ELSE ImageUrl(doc)
     IN /\ bookData' = PutIf(bookData, "imageUrl", imageUrl)
        /\ pc' = IF imageUrl.threw THEN "threw" ELSE "done"
  /\ UNCHANGED <<impl, doc, response, html, detailsText, previous, again,
               method, isbn, sent, loading, displayed>>

SpecImage == InitImage /\ [][ImageOnly]_vars

(***************************************************************************)
(* Properties of the record.                                               *)
(***************************************************************************)
\* the index of the first accepted candidate of a non-empty set of indices
FirstOf(indices) == CHOOSE n \in indices : \A m \in indices : n <= m

Accepted(candidates) == {n \in 1..Len(candidates) : candidates[n].found}

\* the only element of the details container of a page, "" when it has none
OnlyDetails(d) == IF d.details[1] = <<>> THEN "" ELSE d.details[1][1]

\* C1: in the returned record isbn is present iff isbn10 or isbn13 is; isbn
\* equals isbn10 when isbn10 is present, even next to an isbn13, and equals
\* isbn13, which has no hyphen left in it, when only isbn13 is present.
C1_IsbnDerivation ==
  pc = "done" =>
    /\ Has(bookData, "isbn") <=> (Has(bookData, "isbn10") \/ Has(bookData, "isbn13"))
    /\ Has(bookData, "isbn10") => bookData["isbn"] = bookData["isbn10"]
    /\ (Has(bookData, "isbn13") /\ ~Has(bookData, "isbn10")) =>
          bookData["isbn"] = bookData["isbn13"]
    /\ Has(bookData, "isbn13") => ~includes(bookData["isbn13"], "-")

\* C1 happens: a record with both, where a hyphenated isbn13 was stripped and isbn is the isbn10
C1_BothIsbnsReturned ==
  /\ pc = "done"
  /\ OnlyDetails(doc) = "ISBN-10: 8556512666 ISBN-13: 978-85-5651-266-6"
  /\ bookData["isbn10"] = "8556512666"
  /\ bookData["isbn13"] = "9788556512666"
  /\ bookData["isbn"] = "8556512666"

\* C2: for each field resolved from an ordered list of strategies the stored
\* value is the one of the lowest-indexed accepted strategy, whatever later
\* strategies would give; a rejected candidate lets the next strategy be
\* tried; the field is absent iff no strategy is accepted.
C2_FirstValidWins ==
  pc = "done" =>
    \A field \in StrategyFields :
      LET candidates == Candidates(field, impl, doc, html, detailsText)
          accepted == Accepted(candidates)
      IN IF accepted = {}
         THEN ~Has(bookData, field)
         ELSE /\ Has(bookData, field)
              /\ bookData[field] = candidates[FirstOf(accepted)].value

\* C2 happens: both asin strategies are accepted with different values and the first is stored
C2_LaterStrategyDiffers ==
  /\ pc = "done"
  /\ Accepted(asinCandidates(detailsText)) = {1, 2}
  /\ asinCandidates(detailsText)[1].value # asinCandidates(detailsText)[2].value
  /\ bookData["asin"] = asinCandidates(detailsText)[1].value

\* the keys a record can have
RecordKeys == {"title", "authors", "imageUrl", "description", "isbn10", "isbn13", "isbn",
               "asin", "publisher", "publishedDate", "pageCount", "language", "categories"}

IncludesAny(s, words) == \E w \in words : includes(s, w)

MonthNames == {months[n][1] : n \in 1..Len(months)}

\* the page has nothing a field could be read from: no element for the
\* fields read from elements, no label or unit word for the others
NoMaterial(field, d, markup, text) ==
  CASE field = "title" -> d.title = <<>>
    [] field = "authors" -> d.authors = <<>>
    [] field = "imageUrl" -> d.images = <<>>
    [] field = "description" -> \A n \in 1..Len(d.desc) : d.desc[n] = <<>>
    [] field = "isbn10" -> ~includes(toLowerCase(text), "isbn-10")
    [] field = "isbn13" -> ~includes(toLowerCase(text), "isbn-13")
    [] field = "isbn" -> ~includes(toLowerCase(text), "isbn-1")
    [] field = "asin" -> ~includes(toLowerCase(text), "asin")
    [] field = "publisher" -> ~IncludesAny(toLowerCase(text), {"editora", "publisher"})
    [] field = "publishedDate" -> ~IncludesAny(toLowerCase(markup), MonthNames)
    [] field = "pageCount" -> ~IncludesAny(toLowerCase(text), {"páginas", "pages"})
    [] field = "language" -> ~IncludesAny(toLowerCase(text), {"idioma", "language"})
    [] field = "categories" -> d.crumbs = <<>>

\* C3: once the document is fetched the extraction never throws; each field
\* whose material is missing from the page is omitted from the record; a
\* page with no material at all gives the empty record.
C3_NeverThrowsOmitsMissing ==
  /\ response = "ok" => pc # "threw"
  /\ pc = "done" =>
       \A field \in RecordKeys :
         NoMaterial(field, doc, html, detailsText) => ~Has(bookData, field)
  /\ (pc = "done" /\ doc = EmptyPage) => bookData = EmptyRecord

\* C3 happens: JSON.parse threw on the image attribute, the extraction went on and returned
C3_ParseErrorCaught ==
  /\ pc = "done"
  /\ response = "ok"
  /\ JsonParse(ImgSrc(doc)).threw
  /\ DOMAIN bookData = {"imageUrl"}

\* the keys whose values are strings
StringKeys == {"title", "imageUrl", "description", "isbn10", "isbn13", "isbn", "asin",
               "publisher", "publishedDate", "language"}

\* C4: no key of a record of parseAmazonBook, fetchBookData or the handler
\* holds the empty string: title is omitted when the trimmed text of the
\* title element is empty, isbn13 and isbn are never "" after the hyphens
\* are stripped.
C4_NoEmptyValues ==
  \A k \in DOMAIN bookData \cap StringKeys : bookData[k] # ""

\* C5: asin, when present, is 10 characters, each A-Z or a digit, at least
\* one a digit; the token HARDCOVERX is never stored, the token B07XNZK4L5
\* and its lower-case form are stored upper-cased.
C5_AsinShape ==
  /\ Has(bookData, "asin") =>
       /\ Len(bookData["asin"]) = 10
       /\ AllIn(bookData["asin"], UpperAZ \cup Digits)
       /\ \E i \in 1..10 : Ch(bookData["asin"], i) \in Digits
  /\ (pc = "done" /\ OnlyDetails(doc) = "ASIN: HARDCOVERX") => ~Has(bookData, "asin")
  /\ (pc = "done" /\ OnlyDetails(doc) \in {"ASIN: B07XNZK4L5", "ASIN: b07xnzk4l5"}) =>
       (Has(bookData, "asin") /\ bookData["asin"] = "B07XNZK4L5")

\* C5 happens: the lower-case token was captured and is stored upper-cased
C5_LowerCaseAsinStored ==
  /\ pc = "done"
  /\ OnlyDetails(doc) = "ASIN: b07xnzk4l5"
  /\ bookData["asin"] = "B07XNZK4L5"

\* a text without the marks U+200F and U+200E
StripMarks(s) == RemoveAll(RemoveAll(s, RLM), LRM)

\* a page with the marks taken out of its details texts and of the rest of its markup
StripDoc(d) ==
  [d EXCEPT !.details = [n \in 1..Len(d.details) |->
                           [m \in 1..Len(d.details[n]) |-> StripMarks(d.details[n][m])]],
            !.other = StripMarks(d.other)]

\* C6: the marks U+200F and U+200E are removed from the text of the page
\* before any pattern is matched: the record of a page equals the record of
\* the same page without the marks.
C6_MarksStripped ==
  pc = "done" => bookData = Extracted(impl, StripDoc(doc))

\* C7: the details text "editora" U+200F " : " U+200F "suma data da
\* publicação" resolves publisher to "Suma".
C7_MarkedEditoraResolves ==
  (pc = "done" /\ OnlyDetails(doc) = "editora^ : ^suma data da publicação") =>
    (Has(bookData, "publisher") /\ bookData["publisher"] = "Suma")

IsDigits(s) == AllIn(s, Digits)

\* C8: publishedDate, when present in a record of any of the three
\* extractors, is YYYY-MM-DD: four digits, "-", a month in 01..12, "-", two
\* digits of a zero-padded day; never an unresolved month, never an
\* unpadded day.
C8_DateShape ==
  Has(bookData, "publishedDate") =>
    /\ Len(bookData["publishedDate"]) = 10
    /\ IsDigits(SubSeq(bookData["publishedDate"], 1, 4))
    /\ Ch(bookData["publishedDate"], 5) = "-"
    /\ SubSeq(bookData["publishedDate"], 6, 7) \in {months[n][2] : n \in 1..Len(months)}
    /\ Ch(bookData["publishedDate"], 8) = "-"
    /\ IsDigits(SubSeq(bookData["publishedDate"], 9, 10))

\* C8 happens: a one-digit day and an upper-case month name were captured by fetchBookData
C8_UpperCaseMonthStored ==
  /\ pc = "done"
  /\ impl = "react"
  /\ doc.other = "15 MARÇO 1999 5 agosto 2025"
  /\ bookData["publishedDate"] = "1999-03-15"

\* C9: a markup whose only date text is "5 de agosto de 2025", "August 5,
\* 2025" or "5 agosto 2025" gives publishedDate "2025-08-05" in
\* parseAmazonBook, and in fetchBookData, which has the same three patterns.
C9_DateExamples ==
  (/\ pc = "done"
   /\ impl \in {"node", "react"}
   /\ doc.other \in {"5 de agosto de 2025", "August 5, 2025", "5 agosto 2025"}) =>
    (Has(bookData, "publishedDate") /\ bookData["publishedDate"] = "2025-08-05")

\* C9 happens: parseAmazonBook returned the date of the English text
C9_EnglishDateReturned ==
  /\ pc = "done"
  /\ impl = "node"
  /\ doc.other = "August 5, 2025"
  /\ bookData["publishedDate"] = "2025-08-05"

\* C10: publishedDate is resolved by four grammars, the third of them
\* numeric D/M/Y: a markup whose only date is "05/08/2025" gives
\* publishedDate "2025-08-05", and a numeric date wins over an English one
\* in the same page.
C10_NumericDate ==
  (/\ pc = "done"
   /\ doc.other \in {"05/08/2025", "August 5, 2025 05/08/2025"}) =>
    (Has(bookData, "publishedDate") /\ bookData["publishedDate"] = "2025-08-05")

\* the date grammars in the order of the contract: Portuguese without "de",
\* Portuguese with "de", English; the handler knows the first only
GrammarOrder(im) ==
  IF im = "next" THEN <<dateBrShort>> ELSE <<dateBrShort, dateBrLong, dateEn>>

\* the positions of the text s where the expression re matches
MatchPositions(s, re) == {i \in 1..Len(s) : MatchAt(s, i, re, NoCaps).found}

\* the grammars of im that match somewhere in the text s
MatchingGrammars(im, s) ==
  {n \in 1..Len(GrammarOrder(im)) : MatchPositions(s, GrammarOrder(im)[n]) # {}}

\* year-month-day from the captures of a match of the n-th grammar
DateOfCaps(n, caps) ==
  IF n = 3
  THEN caps[3] \o "-" \o Lookup(months, toLowerCase(caps[1])) \o "-" \o padStart2(caps[2])
  ELSE caps[3] \o "-" \o Lookup(months, toLowerCase(caps[2])) \o "-" \o padStart2(caps[1])

\* C11: the date comes from the first grammar, in grammar order, that
\* matches anywhere in the raw markup, and from the leftmost match of that
\* grammar, even when a later grammar matches earlier in the markup; it is
\* absent iff no grammar matches.
C11_GrammarOrderBeatsPosition ==
  pc = "done" =>
    LET matching == MatchingGrammars(impl, html)
        first == FirstOf(matching)
        leftmost == FirstOf(MatchPositions(html, GrammarOrder(impl)[first]))
    IN IF matching = {}
       THEN ~Has(bookData, "publishedDate")
       ELSE /\ Has(bookData, "publishedDate")
            /\ bookData["publishedDate"] =
                 DateOfCaps(first, MatchAt(html, leftmost, GrammarOrder(impl)[first], NoCaps).caps)

\* C11 happens: the English date stands first in the markup and the Portuguese one is returned
C11_LaterGrammarStandsFirst ==
  /\ pc = "done"
  /\ impl = "node"
  /\ doc.other = "August 5, 2025 15 MARÇO 1999"
  /\ bookData["publishedDate"] = "1999-03-15"

\* C12: isbn13, when present, holds digits only, no hyphen; the details text
\* "ISBN-13: 978-85-5651-266-6" gives isbn13 "9788556512666" and, with no
\* ISBN-10 label matched, isbn is that same value.
C12_Isbn13Digits ==
  /\ Has(bookData, "isbn13") => AllIn(bookData["isbn13"], Digits)
  /\ (pc = "done" /\ OnlyDetails(doc) = "ISBN-13: 978-85-5651-266-6") =>
       /\ Has(bookData, "isbn13") /\ bookData["isbn13"] = "9788556512666"
       /\ ~Has(bookData, "isbn10")
       /\ Has(bookData, "isbn") /\ bookData["isbn"] = "9788556512666"

\* C12 happens: the hyphenated ISBN-13 alone was read and returned without its hyphens
C12_HyphensRemoved ==
  /\ pc = "done"
  /\ OnlyDetails(doc) = "ISBN-13: 978-85-5651-266-6"
  /\ bookData["isbn13"] = "9788556512666"
  /\ bookData["isbn"] = bookData["isbn13"]

\* C13: isbn10, when present, is 10 characters, the first nine digits and
\* the last a digit or "X"; "X" is never in a place before the last.
C13_Isbn10Shape ==
  Has(bookData, "isbn10") =>
    /\ Len(bookData["isbn10"]) = 10
    /\ AllIn(SubSeq(bookData["isbn10"], 1, 9), Digits)
    /\ Ch(bookData["isbn10"], 10) \in Digits \cup {"X"}

CanonicalCategories == {"Fiction", "Romance", "Fantasy", "Mystery", "Horror", "Thriller"}

NoDuplicates(seq) == \A i, j \in 1..Len(seq) : seq[i] = seq[j] => i = j

\* the places <<node, table entry>> of the page where the category v comes from
CategoryPlaces(im, d, v) ==
  {<<n, k>> \in (1..Len(d.crumbs)) \X (1..Len(categoryTable(im))) :
     /\ categoryTable(im)[k][2] = v
     /\ categoryAccepted(im, trim(d.crumbs[n]))
     /\ includes(toLowerCase(trim(d.crumbs[n])), categoryTable(im)[k][1])}

Before(a, b) == a[1] < b[1] \/ (a[1] = b[1] /\ a[2] < b[2])

\* the first place of the category v, in node order and then table order
FirstPlace(im, d, v) ==
  LET places == CategoryPlaces(im, d, v)
  IN CHOOSE a \in places : \A b \in places : a = b \/ Before(a, b)

\* C14: categories, when present, is a non-empty sequence without
\* duplicates of canonical categories, ordered by breadcrumb node and,
\* within a node, by the order of the category table; the nodes "Livros",
\* "Ficção", "Romance e Ficção" give <<"Fiction", "Romance">>.
C14_CategoriesCanonical ==
  /\ Has(bookData, "categories") =>
       /\ Len(bookData["categories"]) > 0
       /\ NoDuplicates(bookData["categories"])
       /\ \A i \in 1..Len(bookData["categories"]) :
            bookData["categories"][i] \in CanonicalCategories
       /\ \A i, j \in 1..Len(bookData["categories"]) :
            i < j => Before(FirstPlace(impl, doc, bookData["categories"][i]),
                            FirstPlace(impl, doc, bookData["categories"][j]))
  /\ pc = "done" =>
       \A v \in CanonicalCategories :
         (CategoryPlaces(impl, doc, v) # {}) <=>
           (Has(bookData, "categories") /\ InSeq(v, bookData["categories"]))
  /\ (pc = "done" /\ doc.crumbs = <<"Livros", "Ficção", "Romance e Ficção">>) =>
       (Has(bookData, "categories") /\ bookData["categories"] = <<"Fiction", "Romance">>)

\* C14 happens: the second node repeats the category of the first and adds one
C14_RepeatedCategoryOnce ==
  /\ pc = "done"
  /\ doc.crumbs = <<"Ficção", "Romance e Ficção">>
  /\ bookData["categories"] = <<"Fiction", "Romance">>

ExcludedWords == {"livros", "home", "kindle", "store"}

\* the filter as the contract states it: length strictly between 3 and 50,
\* none of the excluded words in the lower-cased text
ContractAccepts(text) ==
  /\ Len(text) > 3
  /\ Len(text) < 50
  /\ ~IncludesAny(toLowerCase(text), ExcludedWords)

\* C15: a breadcrumb node contributes categories only if its trimmed text
\* is longer than 3 and shorter than 50 and its lower-cased text contains
\* none of "livros", "home", "kindle", "store"; a page whose nodes all fail
\* that test, such as one node "livros de ficção", has no categories.
C15_ExcludedNodesContributeNothing ==
  (/\ pc = "done"
   /\ \A n \in 1..Len(doc.crumbs) : ~ContractAccepts(trim(doc.crumbs[n]))) =>
    ~Has(bookData, "categories")

\* the author nodes of the page whose trimmed text is the name a
NodesNamed(d, a) == {n \in 1..Len(d.authors) : trim(d.authors[n]) = a}

\* the names the page offers: trimmed, non-empty, without "("
NamesOffered(d) ==
  {trim(d.authors[n]) : n \in 1..Len(d.authors)} \ {a \in {trim(d.authors[n]) : n \in 1..Len(d.authors)} : a = "" \/ includes(a, "(")}

\* C16: authors, when present, is a non-empty sequence of trimmed
\* non-empty names, none repeated, none with "(", in the order in which
\* each name is first seen among the author nodes.
C16_AuthorsCleanOrdered ==
  /\ Has(bookData, "authors") =>
       /\ Len(bookData["authors"]) > 0
       /\ NoDuplicates(bookData["authors"])
       /\ \A i \in 1..Len(bookData["authors"]) :
            /\ bookData["authors"][i] # ""
            /\ trim(bookData["authors"][i]) = bookData["authors"][i]
            /\ ~includes(bookData["authors"][i], "(")
            /\ NodesNamed(doc, bookData["authors"][i]) # {}
       /\ \A i, j \in 1..Len(bookData["authors"]) :
            i < j => FirstOf(NodesNamed(doc, bookData["authors"][i]))
                       < FirstOf(NodesNamed(doc, bookData["authors"][j]))
  /\ pc = "done" =>
       IF NamesOffered(doc) = {} THEN ~Has(bookData, "authors")
       ELSE /\ Has(bookData, "authors")
            /\ {bookData["authors"][i] : i \in 1..Len(bookData["authors"])} = NamesOffered(doc)

\* C16 happens: the same name stood in two nodes, once with white space around it
C16_RepeatedNameOnce ==
  /\ pc = "done"
  /\ doc.authors = <<"Frank Herbert", " Frank Herbert ">>
  /\ bookData["authors"] = <<"Frank Herbert">>

\* C17: the extractor run twice on the same document returns the same
\* record both times, keys, values and the order of authors and categories
\* alike; nothing of the first run reaches the second.
C17_SecondRunSameRecord ==
  (pc = "done" /\ again) => bookData = previous

\* C17 happens: a second run returned on a page whose unit word without a number
\* would meet the number of a details text kept from the first run
C17_RanTwice ==
  /\ pc = "done"
  /\ again
  /\ OnlyDetails(doc) = "páginas: 7"
  /\ bookData = previous
  /\ ~Has(bookData, "pageCount")

\* the node-set of the first selector, in declared order, that selects anything
FirstMatching(sets) ==
  IF \A i \in 1..Len(sets) : sets[i] = <<>> THEN <<>>
  ELSE sets[CHOOSE i \in 1..Len(sets) : sets[i] # <<>> /\ \A j \in 1..(i - 1) : sets[j] = <<>>]

ImagesWithId(d, id) == SelectSeq(d.images, LAMBDA el : Attr(el, "id") = id)

\* the texts of the author nodes at the given places, in document order
AuthorNodes(d, places) ==
  [i \in 1..Cardinality(places) |->
     d.authors[CHOOSE n \in places : Cardinality({m \in places : m < n}) = i - 1]]

\* C18: the selectors of a concept are an ordered fallback list.  The cover image
\* is read from the nodes of the first of #landingImage, #imgBlkFront,
\* #ebooksImgBlkFront that selects anything, wherever they stand in the document,
\* and the authors are taken from the author-link nodes alone when there is one,
\* from the contributor-name nodes only otherwise.
C18_FirstSelectorWins ==
  pc = "done" =>
    LET images == FirstMatching([i \in 1..3 |-> ImagesWithId(doc, ImageIds[i])])
        links == AuthorNodes(doc, (1..Len(doc.authors)) \ doc.contributor)
        names == AuthorNodes(doc, doc.contributor)
        imageUrl == ImageUrl([doc EXCEPT !.images = images])
        authors == Authors([doc EXCEPT !.authors = FirstMatching(<<links, names>>)])
    IN /\ Has(bookData, "imageUrl") = imageUrl.found
       /\ imageUrl.found => bookData["imageUrl"] = imageUrl.value
       /\ Has(bookData, "authors") = authors.found
       /\ authors.found => bookData["authors"] = authors.value

\* the record's imageUrl comes from the attribute value v: absent when v is empty
\* or an object without keys, else v itself or the first key of the object v
ImageFrom(r, v) ==
  LET object == v # "" /\ Ch(v, 1) = "{" /\ ~JsonParse(v).threw
  IN IF v = "" \/ (object /\ JsonParse(v).keys = <<>>)
     THEN ~Has(r, "imageUrl")
     ELSE /\ Has(r, "imageUrl")
          /\ r["imageUrl"] = (IF object THEN JsonParse(v).keys[1] ELSE v)

\* C19: the attribute of the chosen image node that gives imageUrl is
\* data-old-hires when it has a non-empty value, else src when non-empty, else
\* data-a-dynamic-image; imageUrl is absent exactly when all three are missing or
\* empty or the value used is an object without keys.
C19_AttributePrecedence ==
  (pc = "done" /\ doc.images # <<>>) =>
    LET el == Head(doc.images)
    IN /\ Attr(el, "hires") # "" => ImageFrom(bookData, Attr(el, "hires"))
       /\ (Attr(el, "hires") = "" /\ Attr(el, "src") # "") => ImageFrom(bookData, Attr(el, "src"))
       /\ (Attr(el, "hires") = "" /\ Attr(el, "src") = "") => ImageFrom(bookData, Attr(el, "dyn"))
       /\ ~Has(bookData, "imageUrl") <=>
            \/ \A a \in {"hires", "src", "dyn"} : Attr(el, a) = ""
            \/ Attr(el, "hires") = "{}"
            \/ Attr(el, "hires") = "" /\ Attr(el, "src") = "{}"
            \/ Attr(el, "hires") = "" /\ Attr(el, "src") = "" /\ Attr(el, "dyn") = "{}"

\* C19 happens: a node with all three attributes gave its data-old-hires value
C19_HiresBeforeSrc ==
  /\ pc = "done"
  /\ doc.images # <<>>
  /\ Attr(Head(doc.images), "hires") = "b.jpg"
  /\ Attr(Head(doc.images), "src") = "a.jpg"
  /\ Attr(Head(doc.images), "dyn") # ""
  /\ bookData["imageUrl"] = "b.jpg"

\* C20: in every implementation, an image attribute value that starts with "{"
\* gives its first key as imageUrl when it is an object with a key, and gives
\* itself, as written, when it is no JSON; the extractor goes on in both cases.
C20_MalformedJsonGivesRawText ==
  (response = "ok" /\ pc \in {"done", "threw"} /\ ImgSrc(doc) # "" /\ Ch(ImgSrc(doc), 1) = "{") =>
    LET imgObj == JsonParse(ImgSrc(doc))
    IN /\ pc = "done"
       /\ (~imgObj.threw /\ Len(imgObj.keys) > 0) =>
            Has(bookData, "imageUrl") /\ bookData["imageUrl"] = imgObj.keys[1]
       /\ imgObj.threw =>
            Has(bookData, "imageUrl") /\ bookData["imageUrl"] = ImgSrc(doc)

\* the trimmed texts of the three description selectors of the page, in their order
DescTexts(im, d) == [n \in 1..Len(d.desc) |-> trim(SelText(im, d.desc[n]))]

\* C21: description, when present, is the trimmed text, longer than 50
\* characters, of the first description selector whose trimmed text is longer
\* than 50; a text of 50 characters or fewer is passed over; description is
\* absent iff no selector has a trimmed text of more than 50 characters.
C21_DescriptionOver50 ==
  pc = "done" =>
    LET texts == DescTexts(impl, doc)
        long == {n \in 1..Len(texts) : Len(texts[n]) > 50}
    IN /\ Has(bookData, "description") <=> long # {}
       /\ long # {} =>
            /\ bookData["description"] = texts[FirstOf(long)]
            /\ Len(bookData["description"]) > 50
            /\ trim(bookData["description"]) = bookData["description"]

\* C21 happens: the first selector has 50 characters between white space,
\* and the text of the second is returned
C21_ShortCandidateSkipped ==
  /\ pc = "done"
  /\ Len(doc.desc[1]) = 1
  /\ Len(doc.desc[1][1]) > 50
  /\ Len(trim(doc.desc[1][1])) = 50
  /\ doc.desc[2] = <<LongB>>
  /\ bookData["description"] = LongB

\* the text of the n-th detail container of the page, "" when it is not there
ContainerText(d, n) == IF d.details[n] = <<>> THEN "" ELSE d.details[n][1]

\* the texts of the containers from the n-th on, each preceded by one space
RECURSIVE SpacedTexts(_, _)
SpacedTexts(d, n) ==
  IF n > Len(d.details) THEN ""
  ELSE (IF ContainerText(d, n) = "" THEN "" ELSE " " \o ContainerText(d, n))
         \o SpacedTexts(d, n + 1)

\* C22: the details text is the texts of the five detail containers in the
\* order of their selectors, each container with text contributing it once after
\* one space, none passed over because an earlier one matched; the details
\* text is the empty string iff no container has text.
C22_DetailsTextOfAllContainers ==
  (pc = "done" /\ \A n \in 1..Len(doc.details) : Len(doc.details[n]) <= 1) =>
    /\ detailsText = SpacedTexts(doc, 1)
    /\ detailsText = "" <=> \A n \in 1..Len(doc.details) : ContainerText(doc, n) = ""

\* the places of the language table whose key the lower-cased value contains
KeysIn(value) ==
  {k \in 1..Len(languageMap) : includes(toLowerCase(trim(value)), languageMap[k][1])}

\* the value captured after the label of the n-th language pattern has a table key
LabelYieldsKey(text, n) ==
  /\ Match(text, languagePatterns("node")[n]).found
  /\ KeysIn(Match(text, languagePatterns("node")[n]).caps[1]) # {}

CodeAfterLabel(text, n) ==
  languageMap[FirstOf(KeysIn(Match(text, languagePatterns("node")[n]).caps[1]))][2]

\* C23: language is the code of the first key of the language table, in its
\* declared order, that the lower-cased value after "Idioma" contains, wherever
\* in the value it stands; when that value has no key the value after "Language"
\* is used the same way; language is absent iff neither value has a key.
C23_LanguageFromIdiomaThenLanguage ==
  pc = "done" =>
    IF LabelYieldsKey(detailsText, 1)
    THEN Has(bookData, "language") /\ bookData["language"] = CodeAfterLabel(detailsText, 1)
    ELSE IF LabelYieldsKey(detailsText, 2)
         THEN Has(bookData, "language") /\ bookData["language"] = CodeAfterLabel(detailsText, 2)
         ELSE ~Has(bookData, "language")

\* the publisher patterns in the order of the contract: the three with
\* "editora", then the English ones
PublisherOrder == <<pubEditoraData, pubEditoraDim, pubEditoraId, pubPublisherDate, pubPublisherId>>

\* every token of s between white space begins with a character that is not lower-case
TitleCased(s) ==
  \A i \in 1..Len(s) :
    (Ch(s, i) \notin SpaceChars /\ (i = 1 \/ Ch(s, i - 1) \in SpaceChars))
      => Ch(s, i) \notin LowerSet

\* C24: publisher, when present, is the trimmed capture of the first accepted
\* pattern, in the order editora...data da publicação, editora...dimensões,
\* editora...isbn/asin, then the English patterns, matched on the lower-cased
\* details text, with every token between white space title-cased; it is longer
\* than one character and not all digits.
C24_PublisherTitleCased ==
  (pc = "done" /\ Has(bookData, "publisher")) =>
    LET lower == toLowerCase(detailsText)
        accepted == {n \in 1..Len(PublisherOrder) :
                       /\ Match(lower, PublisherOrder[n]).found
                       /\ Len(trim(Match(lower, PublisherOrder[n]).caps[1])) > 1
                       /\ ~IsDigits(trim(Match(lower, PublisherOrder[n]).caps[1]))}
    IN /\ accepted # {}
       /\ toLowerCase(bookData["publisher"]) =
            trim(Match(lower, PublisherOrder[FirstOf(accepted)]).caps[1])
       /\ TitleCased(bookData["publisher"])
       /\ Len(bookData["publisher"]) > 1
       /\ ~IsDigits(bookData["publisher"])

\* the number a string of decimal digits writes
RECURSIVE NumberOf(_)
NumberOf(digits) ==
  IF digits = "" THEN 0
  ELSE 10 * NumberOf(SubSeq(digits, 1, Len(digits) - 1))
         + (CHOOSE n \in 0..9 : SubSeq("0123456789", n + 1, n + 1) = SubSeq(digits, Len(digits), Len(digits)))

\* the page patterns of im that match somewhere in the text
MatchingPagePatterns(im, text) ==
  {n \in 1..Len(pagesPatterns(im)) : MatchPositions(text, pagesPatterns(im)[n]) # {}}

\* C25: pageCount, when present, is the non-negative integer written by the
\* digits that the first matching pattern captures at its leftmost match, the
\* patterns in the order "N páginas", "Comprimento: N páginas", "Length: N
\* pages"; where the second matches the first matches too, so the first or the
\* third decides; pageCount is absent iff no pattern matches.
C25_PageCountFirstPattern ==
  pc = "done" =>
    LET matching == MatchingPagePatterns(impl, detailsText)
        first == FirstOf(matching)
        leftmost == FirstOf(MatchPositions(detailsText, pagesPatterns(impl)[first]))
    IN /\ Has(bookData, "pageCount") <=> matching # {}
       /\ 2 \in matching => 1 \in matching
       /\ matching # {} =>
            /\ first \in {1, 3}
            /\ bookData["pageCount"] \in Nat
            /\ bookData["pageCount"] =
                 NumberOf(MatchAt(detailsText, leftmost, pagesPatterns(impl)[first], NoCaps).caps[1])

\* C25 happens: the English line stands first and the Portuguese one, which the
\* second pattern matches as well, gives the count
C25_FirstPatternDecides ==
  /\ pc = "done"
  /\ OnlyDetails(doc) = "Length: 200 pages Comprimento: 12 páginas"
  /\ MatchingPagePatterns(impl, detailsText) = {1, 2, 3}
  /\ bookData["pageCount"] = 12

\* the keys on which the three extractors are said to agree
SharedKeys == {"title", "publisher", "publishedDate", "pageCount", "language", "categories"}

\* the records r and q have the same of the keys and the same values under them
AgreeOn(r, q, keys) ==
  \A k \in keys : /\ Has(r, k) <=> Has(q, k)
                  /\ Has(r, k) => r[k] = q[k]

\* C26: on every page parseAmazonBook, fetchBookData and the Next.js handler
\* return records with the same title, publisher, publishedDate, pageCount,
\* language and categories, present in all three or in none.
C26_ExtractorsAgree ==
  pc = "done" => \A im \in Impls : AgreeOn(bookData, Extracted(im, doc), SharedKeys)

\* the leftmost match of the n-th asin pattern in the text captures a valid asin
LeftmostValid(text, n) ==
  /\ Match(text, asinPatterns[n]).found
  /\ asinValid(toUpperCase(Match(text, asinPatterns[n]).caps[1]))

\* the places where the word "asin" begins in the text, in any case
LabelPlaces(text) == {i \in 1..Len(text) : LitAt(text, i, "asin")}

\* the token that follows the label at place i: after at least one colon or white
\* space, ten letters or digits and then white space or the end of the text;
\* "" when the label is not followed so
TokenAfter(text, i) ==
  LET from == i + 4 + RunLen(text, i + 4, Plus(LabelSep))
  IN IF /\ from > i + 4
        /\ from + 9 <= Len(text)
        /\ AllIn(SubSeq(text, from, from + 9), AlnumChars)
        /\ (from + 10 > Len(text) \/ Ch(text, from + 10) \in SpaceChars)
     THEN SubSeq(text, from, from + 9) ELSE ""

\* C27: asin looks at the leftmost match of each of its two patterns only.
\* When neither leftmost match captures a valid asin, asin is absent even if a
\* label with a valid asin stands later in the details text; when the first
\* label of the text is followed by a valid token that ends at white space or at
\* the end of the text, that token in upper case is the asin.
C27_LeftmostAsinOnly ==
  pc = "done" =>
    /\ (~LeftmostValid(detailsText, 1) /\ ~LeftmostValid(detailsText, 2))
         => ~Has(bookData, "asin")
    /\ LabelPlaces(detailsText) # {} =>
         LET token == TokenAfter(detailsText, FirstOf(LabelPlaces(detailsText)))
         IN (token # "" /\ asinValid(toUpperCase(token))) =>
              (Has(bookData, "asin") /\ bookData["asin"] = toUpperCase(token))

\* C27 happens: the first label has an all-letter token, a valid asin follows
\* the second label, and no asin is returned
C27_LaterValidAsinNotSeen ==
  /\ pc = "done"
  /\ OnlyDetails(doc) = "ASIN: HARDCOVERX ASIN: B07XNZK4L5"
  /\ ~Has(bookData, "asin")

(***************************************************************************)
(* The handler's responses and the component's state.                      *)
(***************************************************************************)
\* the handler has finished with its request
Served == impl = "next" /\ pc \in {"sent", "threw", "done"}

\* the status the order of the checks gives the request: 405 for a method that is
\* not POST, else 400 without a non-empty isbn, else 500 when the fetch failed or
\* the extraction threw, else 200
StatusInOrder ==
  IF method # "POST" THEN 405
  ELSE IF Falsy(isbn) THEN 400
  ELSE IF response = "error" \/ (response = "ok" /\ pc = "threw") THEN 500
  ELSE 200

\* C28: the handler sends exactly one response per request, decided in this order:
\* 405 if the method is not POST, even when isbn is missing as well; otherwise 400 if
\* the body has no non-empty isbn; otherwise 500 with the error message if the fetch
\* rejects, the upstream status is not OK or parsing throws; otherwise 200 with the
\* extracted record.  No fetch is issued for a 405 or a 400.
C28_OneResponseInOrder ==
  impl = "next" =>
    /\ Len(sent) <= 1
    /\ Served =>
         /\ Len(sent) = 1
         /\ sent[1].status = StatusInOrder
         /\ sent[1].status = 200 => sent[1].body = Extracted(impl, doc)
         /\ sent[1].status \in {405, 400} => response = "none"

\* a call of fetchBookData has started and has not completed
InFlight == impl = "react" /\ pc \notin {"idle", "done", "threw"}

\* C29: in the component, loading is true from the start of fetchBookData until the
\* call completes and false after every completed call, failed or not; once the fetch
\* has settled, loading eventually becomes false; and no fetchBookData is started
\* from the button while one is in flight.
C29_LoadingWhileInFlight ==
  /\ [](impl = "react" => (loading <=> InFlight))
  /\ (impl = "react" /\ loading /\ response \in {"ok", "error"}) ~> ~loading
  /\ [][(impl = "react" /\ pc' = "fetch" /\ response' = "pending") => ~InFlight]_vars

\* a second call whose fetch has resolved is under way, the first record on display
C29_SecondCallUnderWay ==
  impl = "react" /\ again /\ loading /\ response = "ok" /\ displayed # <<>>

\* C30: in the component, bookData changes only at the end of a fully successful
\* extraction, when the complete new record replaces it; a call that fails at any
\* step leaves it as it was, the record displayed before or null, never cleared and
\* never partly filled.
C30_DisplayedOnlyOnSuccess ==
  /\ [][impl = "react" =>
          IF pc = "return" /\ pc' = "done"
          THEN displayed' = <<Extracted(impl, doc)>>
          ELSE displayed' = displayed]_vars
  /\ [](impl = "react" /\ pc = "threw" => displayed = IF again THEN <<previous>> ELSE <<>>)

\* a call has failed after one that succeeded, with more in the record than a title
C30_FailedAfterSuccess ==
  /\ impl = "react" /\ pc = "threw" /\ response = "error"
  /\ displayed # <<>> /\ Cardinality(DOMAIN displayed[1]) > 1

====
